---- MODULE Spec2Model ----
(***************************************************************************)
(* Model of coax/_core/value_v.py: the state value function wrapper V.     *)
(*                                                                         *)
(* Python values are modelled as records.  An array is a record            *)
(* [cls, dtype, shape, data]; a batch S is a sequence of rows, its leading *)
(* dimension being Len(S).  Python None is modelled per type: NoSeed for   *)
(* the seed, a record with name/tag "None" for the other arguments.        *)
(***************************************************************************)
EXTENDS Integers, Sequences, FiniteSets, TLC

\* ---------------------------------------------------------------- bounds
MaxBatch == 2     \* largest batch_size passed to example_data
MaxCalls == 2     \* number of __call__ invocations followed
MaxSeed  == 1     \* random seeds are 0..MaxSeed
MaxN     == 2     \* Discrete observation spaces have 2..MaxN elements

KeyMod   == 2     \* random keys are 0..KeyMod-1
NoSeed   == -1    \* random_seed=None

Seeds    == 0..MaxSeed
SeedArgs == Seeds \cup {NoSeed}

\* ---------------------------------------------------------------- errors
Err(kind, got, expected) == [kind |-> kind, got |-> got, expected |-> expected]
NoErr == Err("none", <<>>, <<>>)

\* ---------------------------------------------------------------- spaces
Discrete(n)    == [cls |-> "Discrete", n |-> n]
NotASpace(c)   == [cls |-> c, n |-> 0]
Spaces         == {Discrete(n) : n \in 2..MaxN}
NonSpaces      == {NotASpace("int"), NotASpace("NoneType")}
Env(space)     == [observation_space |-> space]
Envs           == {Env(sp) : sp \in Spaces \cup NonSpaces}

\* isinstance(space, gym.spaces.Space)
IsSpace(space) == space.cls \in {"Discrete"}

\* ---------------------------------------------------------------- preprocessors
NoPreprocessor == [name |-> "None", n |-> 0]
UserStrict(n)  == [name |-> "user_strict", n |-> n]
\* the observation_preprocessor arguments a caller passes with an environment
PreprocessorArgs(env) == {NoPreprocessor, UserStrict(env.observation_space.n)}

\* ProbaDist(space).preprocess_variate
ProbaDist_preprocess_variate(space) == [name |-> "preprocess_variate", n |-> space.n]

\* observation_preprocessor(s): a batch with one row, or an error.
\*   preprocess_variate of a Discrete space: the one-hot row of s
\*   user_strict: a caller's preprocessor that rejects observations outside 0..n-1
Preprocess(pp, s) ==
    IF pp.name = "preprocess_variate"
    THEN [err |-> NoErr, val |-> << [j \in 1..pp.n |-> IF j = s + 1 THEN 1 ELSE 0] >>]
    ELSE IF s < 0 \/ s >= pp.n
         THEN [err |-> Err("ValueError", <<"preprocessor">>, <<>>), val |-> <<>>]
         ELSE [err |-> NoErr, val |-> << <<s + 1>> >>]

\* ---------------------------------------------------------------- random numbers
\* safe_sample(space, rnd): the i-th draw of a generator seeded with r
safe_sample(space, r, i) == (r + i) % space.n

\* the observations a caller may pass to __call__: those of the space, and
\* space.n, which lies outside it
Observations(space) == 0..space.n

\* rnd.randn(batch_size) after batch_size draws
randn(r, N) == [i \in 1..N |-> (r + N + i) % 2]

\* onp.random.RandomState(random_seed): the seeds the generator may start from
RandomState(random_seed) == IF random_seed = NoSeed THEN Seeds ELSE {random_seed}

\* ---------------------------------------------------------------- example_data
RECURSIVE Concat(_)
\* jnp.concatenate(x, axis=0)
Concat(batches) ==
    IF batches = <<>> THEN <<>> ELSE Head(batches) \o Concat(Tail(batches))

\* an array-like value: its class, dtype, shape and (flattened) elements
Array(cls, dtype, shape, data) ==
    [cls |-> cls, dtype |-> dtype, shape |-> shape, data |-> data]
NoArray == Array("None", "none", <<>>, <<>>)

NoExample ==
    [err |-> NoErr, S |-> <<>>, is_training |-> FALSE, static_argnums |-> <<>>,
     output |-> NoArray, pp |-> NoPreprocessor, trace |-> <<>>, returned |-> FALSE]

\* V.example_data, lines 143-156: the example batch of a recognised space
example_batch(env, observation_preprocessor, batch_size, r) ==
    LET pp == IF observation_preprocessor = NoPreprocessor
              THEN ProbaDist_preprocess_variate(env.observation_space)
              ELSE observation_preprocessor
        samples == [i \in 1..batch_size |-> safe_sample(env.observation_space, r, i)]
        pre     == [i \in 1..batch_size |-> Preprocess(pp, samples[i])]
        drawn   == [i \in 1..batch_size |-> "safe_sample"]
        applied == [i \in 1..batch_size |-> "preprocess"]
        derived == IF observation_preprocessor = NoPreprocessor
                   THEN <<"ProbaDist">> ELSE <<>>
        tr      == derived \o <<"RandomState">> \o drawn \o applied
    IN  IF \E i \in 1..batch_size : pre[i].err.kind # "none"
        THEN [NoExample EXCEPT
                !.err = pre[CHOOSE i \in 1..batch_size : pre[i].err.kind # "none"].err,
                !.pp = pp, !.trace = tr]
        ELSE IF batch_size = 0
        \* jax.tree_multimap(f, *[]) : the required tree argument is missing
        THEN [NoExample EXCEPT
                !.err = Err("TypeError", <<"tree_multimap">>, <<"tree">>),
                !.pp = pp, !.trace = tr]
        ELSE [err |-> NoErr,
              S |-> Concat([i \in 1..batch_size |-> pre[i].val]),
              is_training |-> TRUE,
              static_argnums |-> <<1>>,
              output |-> Array("jnp.ndarray", "float32", <<batch_size>>,
                               randn(r, batch_size)),
              pp |-> pp,
              trace |-> tr \o <<"concatenate", "randn">>,
              returned |-> TRUE]

\* example_data with the observation space checked only after the default
\* preprocessor was derived and the generator made
example_data_late_check(env, observation_preprocessor, batch_size, r) ==
    IF ~IsSpace(env.observation_space)
    THEN [NoExample EXCEPT
            !.err = Err("bad_space", <<env.observation_space.cls>>, <<"Space">>),
            !.trace = IF observation_preprocessor = NoPreprocessor
                      THEN <<"ProbaDist", "RandomState">> ELSE <<"RandomState">>]
    ELSE example_batch(env, observation_preprocessor, batch_size, r)

\* V.example_data(env, observation_preprocessor, batch_size, random_seed),
\* with r the state the random generator starts from
example_data(env, observation_preprocessor, batch_size, r) ==
    IF ~IsSpace(env.observation_space)
    THEN [NoExample EXCEPT
            !.err = Err("bad_space", <<env.observation_space.cls>>, <<"Space">>)]
    ELSE example_batch(env, observation_preprocessor, batch_size, r)

\* ---------------------------------------------------------------- value transforms
\* a value_transform argument: None, a ValueTransform object or a tuple of
\* functions.  id tells objects apart: 0 is an object made by V.__init__.
NoneVT == [tag |-> "None", id |-> 0, items |-> <<>>,
           transform_func |-> "", inverse_func |-> ""]
TupleVT(f0, f1) == [tag |-> "tuple", id |-> 0, items |-> <<f0, f1>>,
                    transform_func |-> "", inverse_func |-> ""]
VTObject(id, f, finv) == [tag |-> "ValueTransform", id |-> id, items |-> <<>>,
                          transform_func |-> f, inverse_func |-> finv]
\* ValueTransform(transform_func, inverse_func): a new object
ValueTransform(f, finv) == VTObject(0, f, finv)

ValueTransformArgs ==
    {NoneVT, VTObject(1, "inc", "dec"), VTObject(2, "identity", "identity"),
     TupleVT("double", "half"), TupleVT("checked", "checked")}

\* the numeric functions of the transforms above, on one element
ApplyFn(fn, x) ==
    CASE fn = "inc"    -> x + 1
      [] fn = "dec"    -> x - 1
      [] fn = "double" -> 2 * x
      [] fn = "half"   -> x \div 2
      [] OTHER         -> x
\* "checked" raises on an array holding a zero
FnRaises(fn, data) == fn = "checked" /\ \E i \in 1..Len(data) : data[i] = 0
MapFn(fn, a) == [a EXCEPT !.data = [i \in 1..Len(a.data) |-> ApplyFn(fn, a.data[i])]]

\* ---------------------------------------------------------------- func
\* A forward-pass function: its declared parameters and what its body
\* returns in training and in inference mode.  A body is
\*   calc  : what each element adds to the row sum of S ("sum": the params,
\*           "state": the function state, which it advances, "rng": the
\*           random key), or "raise"
\*   cls, dtype : the class and dtype of the returned value
\*   shape : "batch" (n,), "scalar" (), "col" (n, 1) or "empty" (0,)
Body(calc, cls, dtype, shape) ==
    [calc |-> calc, cls |-> cls, dtype |-> dtype, shape |-> shape]
Func(params, train, eval) == [params |-> params, train |-> train, eval |-> eval]

SumBody    == Body("sum", "jnp.ndarray", "float32", "batch")
StateBody  == Body("state", "jnp.ndarray", "float32", "batch")
RngBody    == Body("rng", "jnp.ndarray", "float16", "batch")
IntBody    == Body("sum", "jnp.ndarray", "int32", "batch")
ScalarBody == Body("sum", "jnp.ndarray", "float32", "scalar")
EmptyBody  == Body("sum", "jnp.ndarray", "float32", "empty")
IntColBody == Body("sum", "jnp.ndarray", "int32", "col")
NumpyBody  == Body("sum", "numpy.ndarray", "int64", "scalar")
ListBody   == Body("sum", "list", "none", "batch")
RaiseBody  == Body("raise", "None", "none", "batch")

Bodies == {SumBody, StateBody, RngBody, IntBody, ScalarBody, EmptyBody,
           IntColBody, NumpyBody, ListBody, RaiseBody}

GoodParams == <<"S", "is_training">>
BadParams  == {<<"is_training", "S">>, <<"S">>, <<"S", "is_training", "extra">>,
               <<"s", "is_training">>}

Funcs ==
    {Func(GoodParams, b, b) : b \in Bodies}
    \cup {Func(GoodParams, SumBody, b) : b \in Bodies}
    \cup {Func(GoodParams, StateBody, RngBody)}
    \cup {Func(p, SumBody, SumBody) : p \in BadParams}
    \cup {Func(<<"S">>, RaiseBody, RaiseBody)}

RECURSIVE RowSum(_)
RowSum(row) == IF row = <<>> THEN 0 ELSE Head(row) + RowSum(Tail(row))

\* jnp.issubdtype(dtype, jnp.floating)
IsFloating(dtype) == dtype \in {"float16", "float32", "float64"}

\* the shape of a body's return value on a batch of n rows
ShapeOf(body, n) ==
    CASE body.shape = "batch"  -> <<n>>
      [] body.shape = "scalar" -> <<>>
      [] body.shape = "col"    -> <<n, 1>>
      [] OTHER                 -> <<0>>

\* self.function(params, function_state, rng, S, is_training):
\* (output, new function state), or the error func raises
function(func, params, function_state, rng, S, is_training) ==
    LET body == IF is_training THEN func.train ELSE func.eval
        add  == CASE body.calc = "sum"   -> params
                  [] body.calc = "state" -> function_state
                  [] OTHER               -> rng
        rows == [i \in 1..Len(S) |-> RowSum(S[i]) + add]
        data == CASE body.shape = "scalar" -> << RowSum(rows) >>
                  [] body.shape = "empty"  -> <<>>
                  [] OTHER                 -> rows
    IN  IF body.calc = "raise"
        THEN [err |-> Err("RuntimeError", <<"func">>, <<>>), out |-> NoArray,
              new_state |-> function_state, is_training |-> is_training]
        ELSE [err |-> NoErr,
              out |-> Array(body.cls, body.dtype, ShapeOf(body, Len(S)), data),
              new_state |-> IF body.calc = "state"
                            THEN (function_state + 1) % 2 ELSE function_state,
              is_training |-> is_training]

\* ---------------------------------------------------------------- the wrapper object
NoSelf ==
    [observation_preprocessor |-> NoPreprocessor, value_transform |-> NoneVT,
     observation_space |-> NotASpace("NoneType"), random_seed |-> NoSeed,
     params |-> 0, function_state |-> 0, random_key |-> 0]

\* defaults with the tuple taken as (inverse_func, transform_func)
defaults_swapped(slf, env, observation_preprocessor, value_transform) ==
    LET pp  == IF observation_preprocessor = NoPreprocessor
               THEN ProbaDist_preprocess_variate(env.observation_space)
               ELSE observation_preprocessor
        vt1 == IF value_transform.tag = "None"
               THEN ValueTransform("identity", "identity")
               ELSE value_transform
        vt2 == IF vt1.tag # "ValueTransform"
               THEN ValueTransform(value_transform.items[2], value_transform.items[1])
               ELSE vt1
    IN  [slf EXCEPT !.observation_preprocessor = pp, !.value_transform = vt2]

\* V.__init__, lines 95-104: the attributes set before super().__init__
defaults(slf, env, observation_preprocessor, value_transform) ==
    LET pp  == IF observation_preprocessor = NoPreprocessor
               THEN ProbaDist_preprocess_variate(env.observation_space)
               ELSE observation_preprocessor
        vt1 == IF value_transform.tag = "None"
               THEN ValueTransform("identity", "identity")
               ELSE value_transform
        vt2 == IF vt1.tag # "ValueTransform"
               THEN ValueTransform(value_transform.items[1], value_transform.items[2])
               ELSE vt1
    IN  [slf EXCEPT !.observation_preprocessor = pp, !.value_transform = vt2]

\* check_signature comparing the parameter names without their order
check_signature_unordered(slf, func, r) ==
    IF {func.params[i] : i \in 1..Len(func.params)} # {"S", "is_training"}
    THEN [err |-> Err("bad_signature", func.params, <<"S", "is_training">>),
          example |-> NoExample, called |-> FALSE,
          events |-> <<"_check_signature">>]
    ELSE LET e == example_data(Env(slf.observation_space),
                               slf.observation_preprocessor, 1, r)
         IN  [err |-> e.err, example |-> e, called |-> TRUE,
              events |-> <<"_check_signature", "example_data">>]

\* V._check_signature(func), with r the state example_data's generator starts from
check_signature(slf, func, r) ==
    IF func.params # <<"S", "is_training">>
    THEN [err |-> Err("bad_signature", func.params, <<"S", "is_training">>),
          example |-> NoExample, called |-> FALSE,
          events |-> <<"_check_signature">>]
    ELSE LET e == example_data(Env(slf.observation_space),
                               slf.observation_preprocessor, 1, r)
         IN  [err |-> e.err, example |-> e, called |-> TRUE,
              events |-> <<"_check_signature", "example_data">>]

\* check_output comparing the shape before the dtype
check_output_shape_first(actual, expected) ==
    IF actual.cls # "jnp.ndarray"
    THEN Err("bad_return_type", <<actual.cls>>, <<"jnp.ndarray">>)
    ELSE IF actual.shape # expected.shape
    THEN Err("bad_return_shape", actual.shape, expected.shape)
    ELSE IF ~IsFloating(actual.dtype)
    THEN Err("bad_return_dtype", <<actual.dtype>>, <<"jnp.floating">>)
    ELSE NoErr

\* check_output asking for float32 where any floating dtype should do
check_output_float32_only(actual, expected) ==
    IF actual.cls # "jnp.ndarray"
    THEN Err("bad_return_type", <<actual.cls>>, <<"jnp.ndarray">>)
    ELSE IF actual.dtype # "float32"
    THEN Err("bad_return_dtype", <<actual.dtype>>, <<"jnp.floating">>)
    ELSE IF actual.shape # expected.shape
    THEN Err("bad_return_shape", actual.shape, expected.shape)
    ELSE NoErr

\* V._check_output(actual, expected): the error raised, or NoErr
check_output(actual, expected) ==
    IF actual.cls # "jnp.ndarray"
    THEN Err("bad_return_type", <<actual.cls>>, <<"jnp.ndarray">>)
    ELSE IF ~IsFloating(actual.dtype)
    THEN Err("bad_return_dtype", <<actual.dtype>>, <<"jnp.floating">>)
    ELSE IF actual.shape # expected.shape
    THEN Err("bad_return_shape", actual.shape, expected.shape)
    ELSE NoErr

\* self.rng: reading the random key consumes it
NextKey(key) == (key + 1) % KeyMod

\* BaseFunc.__init__(func, observation_space, action_space=None, random_seed):
\* the signature check, the initialisation of params and function state on
\* the example batch, the trial forward call and the output check.
\*   k : the random key the seed gives,  r : as in check_signature
BaseFunc__init__(slf, func, observation_space, random_seed, k, r) ==
    LET s1   == [slf EXCEPT !.observation_space = observation_space,
                            !.random_seed = random_seed,
                            !.random_key = k % KeyMod]
        sig  == check_signature(s1, func, r)
        k1   == s1.random_key
        init == function(func, 0, 0, k1, sig.example.S, TRUE)
        s2   == [s1 EXCEPT !.params = k1, !.function_state = 0,
                           !.random_key = NextKey(k1)]
        k2   == s2.random_key
        fwd  == function(func, s2.params, s2.function_state, k2, sig.example.S, TRUE)
        s3   == [s2 EXCEPT !.random_key = NextKey(k2)]
        chk  == check_output(fwd.out, sig.example.output)
    IN  IF sig.err.kind # "none"
        THEN [self |-> s1, err |-> sig.err, events |-> sig.events,
              trial |-> NoArray, sig |-> sig]
        ELSE IF init.err.kind # "none"
        THEN [self |-> s2, err |-> init.err, events |-> sig.events \o <<"func">>,
              trial |-> NoArray, sig |-> sig]
        ELSE IF chk.kind # "none"
        THEN [self |-> s3, err |-> chk,
              events |-> sig.events \o <<"func", "func", "_check_output">>,
              trial |-> fwd.out, sig |-> sig]
        ELSE [self |-> s3, err |-> NoErr,
              events |-> sig.events \o <<"func", "func", "_check_output">>,
              trial |-> fwd.out, sig |-> sig]

\* V[0] followed by onp.asarray
Index0(a) ==
    IF a.shape = <<>> \/ a.shape[1] = 0
    THEN [err |-> Err("IndexError", a.shape, <<>>), val |-> NoArray]
    ELSE [err |-> NoErr,
          val |-> Array("numpy.ndarray", a.dtype, Tail(a.shape), << a.data[1] >>)]

NoCall ==
    [s |-> 0, self |-> NoSelf, err |-> NoErr, result |-> NoArray, raw |-> NoArray,
     S |-> <<>>, key |-> 0, is_training |-> FALSE, steps |-> <<>>]

\* __call__ with one slip:
\*   "transform_func" : applies the forward transform instead of the inverse
\*   "store_state"    : keeps the function state the forward call returns
\*   "revalidate"     : runs _check_output on the forward output
call_slip(slf, func, s, slip) ==
    LET pre   == Preprocess(slf.observation_preprocessor, s)
        key   == slf.random_key
        fwd   == function(func, slf.params, slf.function_state, key, pre.val, FALSE)
        after == [slf EXCEPT !.random_key = NextKey(key),
                             !.function_state = IF slip = "store_state"
                                                THEN fwd.new_state ELSE @]
        inv   == IF slip = "transform_func"
                 THEN slf.value_transform.transform_func
                 ELSE slf.value_transform.inverse_func
        chk   == IF slip = "revalidate"
                 THEN check_output(fwd.out, Array("jnp.ndarray", "float32",
                                                  <<Len(pre.val)>>, <<>>))
                 ELSE NoErr
        V     == MapFn(inv, fwd.out)
        v0    == Index0(V)
        base  == [NoCall EXCEPT !.s = s]
    IN  IF pre.err.kind # "none"
        THEN [base EXCEPT !.self = slf, !.err = pre.err,
                          !.steps = <<"observation_preprocessor">>]
        ELSE IF fwd.err.kind # "none"
        THEN [base EXCEPT !.self = after, !.err = fwd.err, !.S = pre.val, !.key = key,
                          !.is_training = fwd.is_training,
                          !.steps = <<"observation_preprocessor", "function">>]
        ELSE IF chk.kind # "none"
        THEN [base EXCEPT !.self = after, !.err = chk, !.S = pre.val, !.key = key,
                          !.raw = fwd.out, !.is_training = fwd.is_training,
                          !.steps = <<"observation_preprocessor", "function",
                                      "_check_output">>]
        ELSE IF FnRaises(inv, fwd.out.data)
        THEN [base EXCEPT !.self = after, !.err = Err("ValueError", <<inv>>, <<>>),
                          !.S = pre.val, !.key = key, !.raw = fwd.out,
                          !.is_training = fwd.is_training,
                          !.steps = <<"observation_preprocessor", "function",
                                      "inverse_func">>]
        ELSE [base EXCEPT !.self = after, !.err = v0.err, !.result = v0.val,
                          !.S = pre.val, !.key = key, !.raw = fwd.out,
                          !.is_training = fwd.is_training,
                          !.steps = <<"observation_preprocessor", "function",
                                      "inverse_func", "getitem">>]

call_forward_transform(slf, func, s) == call_slip(slf, func, s, "transform_func")
call_storing_state(slf, func, s)     == call_slip(slf, func, s, "store_state")
call_revalidating(slf, func, s)      == call_slip(slf, func, s, "revalidate")

\* V.__call__(s): the object after the call and what the call did
call(slf, func, s) ==
    LET pre   == Preprocess(slf.observation_preprocessor, s)
        key   == slf.random_key
        after == [slf EXCEPT !.random_key = NextKey(key)]
        fwd   == function(func, slf.params, slf.function_state, key, pre.val, FALSE)
        inv   == slf.value_transform.inverse_func
        V     == MapFn(inv, fwd.out)
        v0    == Index0(V)
        base  == [NoCall EXCEPT !.s = s]
    IN  IF pre.err.kind # "none"
        THEN [base EXCEPT !.self = slf, !.err = pre.err,
                          !.steps = <<"observation_preprocessor">>]
        ELSE IF fwd.err.kind # "none"
        THEN [base EXCEPT !.self = after, !.err = fwd.err, !.S = pre.val, !.key = key,
                          !.is_training = fwd.is_training,
                          !.steps = <<"observation_preprocessor", "function">>]
        ELSE IF FnRaises(inv, fwd.out.data)
        THEN [base EXCEPT !.self = after, !.err = Err("ValueError", <<inv>>, <<>>),
                          !.S = pre.val, !.key = key, !.raw = fwd.out,
                          !.is_training = fwd.is_training,
                          !.steps = <<"observation_preprocessor", "function",
                                      "inverse_func">>]
        ELSE [base EXCEPT !.self = after, !.err = v0.err, !.result = v0.val,
                          !.S = pre.val, !.key = key, !.raw = fwd.out,
                          !.is_training = fwd.is_training,
                          !.steps = <<"observation_preprocessor", "function",
                                      "inverse_func", "getitem">>]

\* ---------------------------------------------------------------- state
VARIABLES
    pc,        \* "start": no object; "ready": constructed; "failed": __init__ raised
    func,      \* the func argument of V.__init__
    env,       \* the env argument of V.__init__
    arg,       \* the optional arguments of V.__init__
    self,      \* the attributes of the V object
    atSuper,   \* the attributes when V.__init__ reached super().__init__
    built,     \* the attributes when V.__init__ returned
    err,       \* the error V.__init__ raised
    events,    \* what V.__init__ ran, in order
    trial,     \* the output of the trial forward call
    ex,        \* the latest call of example_data: its arguments and outcome
    ncalls,    \* the number of __call__ invocations so far
    last       \* the latest __call__: its argument and outcome

vars == <<pc, func, env, arg, self, atSuper, built, err, events, trial, ex, ncalls, last>>

NoFunc == Func(<<>>, RaiseBody, RaiseBody)
NoArg  == [observation_preprocessor |-> NoPreprocessor, value_transform |-> NoneVT,
           random_seed |-> NoSeed]
ExCall(e, pp, batch_size, random_seed, ret) ==
    [env |-> e, observation_preprocessor |-> pp, batch_size |-> batch_size,
     random_seed |-> random_seed, ret |-> ret, n |-> 1]
NoEx == [ExCall(Env(NotASpace("NoneType")), NoPreprocessor, 0, NoSeed, NoExample)
            EXCEPT !.n = 0]

Init ==
    /\ pc = "start"
    /\ func = NoFunc
    /\ env = Env(NotASpace("NoneType"))
    /\ arg = NoArg
    /\ self = NoSelf
    /\ atSuper = NoSelf
    /\ built = NoSelf
    /\ err = NoErr
    /\ events = <<>>
    /\ trial = NoArray
    /\ ex = NoEx
    /\ ncalls = 0
    /\ last = NoCall

\* V.example_data(env, observation_preprocessor, batch_size, random_seed) called
\* on the class.  The method reads and writes no object and no object reads
\* its result, so a run follows either calls on the class or one object.
ExampleData ==
    /\ pc = "start"
    /\ \E e \in Envs, N \in 0..MaxBatch, seed \in SeedArgs :
         \E pp \in PreprocessorArgs(e), r \in RandomState(seed) :
            ex' = ExCall(e, pp, N, seed, example_data(e, pp, N, r))
    /\ UNCHANGED <<pc, func, env, arg, self, atSuper, built, err, events, trial,
                   ncalls, last>>

\* V(func, env, observation_preprocessor, value_transform, random_seed)
Construct ==
    /\ pc = "start"
    /\ ex = NoEx
    /\ \E f \in Funcs, e \in Envs, vt \in ValueTransformArgs, seed \in SeedArgs :
         \E pp \in PreprocessorArgs(e), k \in RandomState(seed), r \in RandomState(seed) :
            LET d == defaults(NoSelf, e, pp, vt)
                b == BaseFunc__init__(d, f, e.observation_space, seed, k, r)
            IN  /\ func' = f
                /\ env' = e
                /\ arg' = [observation_preprocessor |-> pp, value_transform |-> vt,
                           random_seed |-> seed]
                /\ atSuper' = d
                /\ self' = b.self
                /\ err' = b.err
                /\ events' = b.events
                /\ trial' = b.trial
                /\ ex' = IF b.sig.called
                         THEN ExCall(Env(b.self.observation_space),
                                     d.observation_preprocessor, 1, seed,
                                     b.sig.example)
                         ELSE ex
                /\ pc' = IF b.err.kind = "none" THEN "ready" ELSE "failed"
                /\ built' = IF b.err.kind = "none" THEN b.self ELSE NoSelf
    /\ UNCHANGED <<ncalls, last>>

\* v(s)
Call ==
    /\ pc = "ready"
    /\ ncalls < MaxCalls
    /\ \E s \in Observations(self.observation_space) :
         LET c == call(self, func, s)
         IN  /\ last' = [c EXCEPT !.self = self]
             /\ self' = c.self
    /\ ncalls' = ncalls + 1
    /\ UNCHANGED <<pc, func, env, arg, atSuper, built, err, events, trial, ex>>

Next == ExampleData \/ Construct \/ Call

Spec == Init /\ [][Next]_vars

\* ---------------------------------------------------------------- properties
Constructing == pc # "start"
GoodEnv      == IsSpace(env.observation_space)
GoodSig      == func.params = <<"S", "is_training">>
ValidationErrors ==
    {"bad_signature", "bad_space", "bad_return_type", "bad_return_dtype",
     "bad_return_shape"}

\* C1: a func whose parameters are not exactly (S, is_training) makes
\* construction fail with the signature error listing func's parameters,
\* before an example batch is synthesised and before func is invoked.
C1_SignatureErrorFirst ==
    (Constructing /\ ~GoodSig) =>
        /\ pc = "failed"
        /\ err.kind = "bad_signature"
        /\ err.got = func.params
        /\ events = <<"_check_signature">>
        /\ ex = NoEx
        /\ trial = NoArray

C1_Witness ==
    /\ pc = "failed"
    /\ func.params = <<"is_training", "S">>
    /\ err.kind = "bad_signature"
    /\ ~GoodEnv

\* C2: a trial output that is no jnp.ndarray, or not of a floating dtype, or
\* not of the expected shape (batch_size,), makes construction fail with the
\* error of the first property violated, in the order return type, dtype,
\* shape, with the actual value; an output meeting all three raises nothing.
C2_OutputCheck ==
    (Constructing /\ trial.cls # "None") =>
        LET isArray  == trial.cls = "jnp.ndarray"
            floating == trial.dtype \in {"float16", "float32", "float64"}
            shaped   == trial.shape = <<ex.batch_size>>
        IN  /\ ex.batch_size = 1
            /\ ~isArray =>
                 /\ pc = "failed"
                 /\ err.kind = "bad_return_type"
                 /\ err.got = <<trial.cls>>
            /\ (isArray /\ ~floating) =>
                 /\ pc = "failed"
                 /\ err.kind = "bad_return_dtype"
                 /\ err.got = <<trial.dtype>>
            /\ (isArray /\ floating /\ ~shaped) =>
                 /\ pc = "failed"
                 /\ err.kind = "bad_return_shape"
                 /\ err.got = trial.shape
                 /\ err.expected = <<ex.batch_size>>
            /\ (isArray /\ floating /\ shaped) => pc = "ready"

C2_Witness ==
    /\ pc = "failed"
    /\ trial.cls = "jnp.ndarray"
    /\ trial.dtype = "int32"
    /\ trial.shape = <<1, 1>>
    /\ err.kind = "bad_return_dtype"

\* C3: with an environment whose observation space is a Space, a func with
\* signature (S, is_training) that returns a floating jnp.ndarray of shape
\* (batch,) is accepted: construction raises nothing, whatever the
\* preprocessor, value_transform and random_seed arguments.
C3_ValidFuncAccepted ==
    (/\ Constructing
     /\ GoodEnv
     /\ GoodSig
     /\ func.train.calc # "raise"
     /\ func.train.cls = "jnp.ndarray"
     /\ func.train.dtype \in {"float16", "float32", "float64"}
     /\ func.train.shape = "batch")
    => (pc = "ready" /\ err = NoErr)

C3_Witness ==
    /\ pc = "ready"
    /\ func.train.dtype = "float16"
    /\ arg.value_transform.tag = "tuple"
    /\ arg.observation_preprocessor.name = "user_strict"
    /\ arg.random_seed = NoSeed

\* C4: example_data(env, batch_size=N) returns, for every N >= 0 and every
\* preprocessor, an input batch of leading dimension N with is_training=True
\* and static_argnums=(1,), and an expected output of shape (N,).
C4_ExampleDataShapes ==
    (ex.n > 0 /\ IsSpace(ex.env.observation_space)) =>
        /\ ex.ret.returned
        /\ Len(ex.ret.S) = ex.batch_size
        /\ ex.ret.output.shape = <<ex.batch_size>>
        /\ ex.ret.is_training = TRUE
        /\ ex.ret.static_argnums = <<1>>

\* C5: a call that returns ran the preprocessor, then the wrapped function
\* with is_training=False, then the inverse transform, and returns element 0
\* of inverse_func(raw forward output); transform_func is not applied, and
\* with the identity pair the result is element 0 of the raw output.
C5_CallReturnsInverse ==
    (ncalls > 0 /\ last.err.kind = "none") =>
        LET vt == built.value_transform
            S  == Preprocess(built.observation_preprocessor, last.s).val
        IN  /\ last.steps = <<"observation_preprocessor", "function",
                              "inverse_func", "getitem">>
            /\ last.is_training = FALSE
            /\ last.raw = function(func, built.params, built.function_state,
                                   last.key, S, FALSE).out
            /\ last.result.data = << ApplyFn(vt.inverse_func, last.raw.data[1]) >>
            /\ vt.inverse_func = "identity" => last.result.data = << last.raw.data[1] >>

C5_Witness ==
    /\ ncalls > 0
    /\ last.err.kind = "none"
    /\ built.value_transform.transform_func = "inc"
    /\ last.result.data # << last.raw.data[1] >>

C8_NoValidationOnCall ==
    (ncalls > 0) =>
        LET pre == Preprocess(built.observation_preprocessor, last.s)
            fwd == function(func, built.params, built.function_state, last.key,
                            pre.val, FALSE)
            inv == built.value_transform.inverse_func
        IN  /\ last.err.kind \notin ValidationErrors
            /\ \A i \in 1..Len(last.steps) :
                   last.steps[i] \notin {"_check_signature", "_check_output"}
            /\ pre.err.kind # "none" => last.err = pre.err
            /\ (pre.err.kind = "none" /\ fwd.err.kind # "none") => last.err = fwd.err
            /\ (pre.err.kind = "none" /\ fwd.err.kind = "none"
                  /\ FnRaises(inv, fwd.out.data)) =>
                   last.err = Err("ValueError", <<inv>>, <<>>)

C8_Witness ==
    /\ ncalls > 0
    /\ last.err.kind = "none"
    /\ last.raw.dtype = "int32"
    /\ last.raw.shape = <<1, 1>>

\* C9: when V.__init__ reaches super().__init__, value_transform is a
\* ValueTransform (the identity pair for None, the very object passed if it
\* is one, else the pair coerced with item 0 as transform_func and item 1 as
\* inverse_func) and observation_preprocessor is the one passed, or else the
\* default of env.observation_space; the example batch of the validation is
\* made with that preprocessor.
C9_DefaultsComplete ==
    Constructing =>
        LET vt == atSuper.value_transform
            a  == arg.value_transform
        IN  /\ vt.tag = "ValueTransform"
            /\ a.tag = "None" =>
                 (vt.transform_func = "identity" /\ vt.inverse_func = "identity")
            /\ a.tag = "ValueTransform" => vt = a
            /\ a.tag = "tuple" =>
                 (vt.transform_func = a.items[1] /\ vt.inverse_func = a.items[2])
            /\ atSuper.observation_preprocessor =
                 IF arg.observation_preprocessor.name = "None"
                 THEN ProbaDist_preprocess_variate(env.observation_space)
                 ELSE arg.observation_preprocessor
            /\ ex.n > 0 =>
                 ex.observation_preprocessor = atSuper.observation_preprocessor
            /\ ex.ret.returned => ex.ret.pp = atSuper.observation_preprocessor

C9_Witness ==
    /\ pc = "ready"
    /\ arg.value_transform.tag = "tuple"
    /\ arg.observation_preprocessor.name = "None"
    /\ ex.ret.returned
    /\ atSuper.value_transform.inverse_func = "half"

\* C10: calls leave observation_preprocessor, value_transform, random_seed,
\* params and function_state as they were when construction returned; the
\* function state a forward call returns is not stored.
C10_CallsKeepConfiguration ==
    (pc = "ready") =>
        /\ self.observation_preprocessor = built.observation_preprocessor
        /\ self.value_transform = built.value_transform
        /\ self.random_seed = built.random_seed
        /\ self.params = built.params
        /\ self.function_state = built.function_state
        /\ self.observation_space = built.observation_space

C10_Witness ==
    /\ ncalls >= 2
    /\ func.eval.calc = "state"
    /\ last.err.kind = "none"
    /\ last.self.random_key # built.random_key

====
